---- MODULE Spec2Model ----
(***************************************************************************)
(* The ra_fmt2 formatting engine of rust-analyzer (EditTree construction,  *)
(* spacing pass, indent pass, renderer), the `limit` crate, the syntax     *)
(* errors reported by ide::diagnostics and the Subscriptions set of the    *)
(* LSP server, as state machines.  Text is a sequence of one-character     *)
(* strings.                                                                *)
(***************************************************************************)
EXTENDS Naturals, Integers, Sequences, FiniteSets, TLC

VARIABLES
    text,          \* the input text of the current run
    space_rules,   \* SpacingDsl.rules: sequence of SpacingRule
    indent_rules,  \* IndentDsl.rules: sequence of IndentRule (patterns)
    anchors,       \* IndentDsl.anchors: sequence of anchor patterns
    pc,            \* position of the run in format_str
    cst,           \* the parsed syntax tree (elements in document order)
    ws,            \* Block -> Whitespace record (RefCell<Whitespace>)
    iter,          \* the items of the loop in progress: the calls of
                   \* compute_spacing (spacing_diff), `blocks` (indent_diff),
                   \* `traverse` (apply_edits)
    idx,           \* position of the loop in progress in iter
    out,           \* the string built by apply_edits
    err,           \* why the run panicked ("" when it did not)
    last_indent,   \* the last write of check_indent that changed a record:
                   \* [at, block, target, width] (<<>> when none yet)
    run,           \* 1: formatting the input, 2: formatting the first output
    first_in,      \* the text given to run 1
    first_out,     \* the output of run 1
    upperbound,    \* Limit.upperbound
    other,         \* the argument of Limit::check
    result,        \* the value Limit::check returned
    parse_errors,  \* parse.errors() of the file given to diagnostics
    res,           \* the Vec<Diagnostic> built by diagnostics
    diag_done,     \* diagnostics has extended res with the syntax errors
    subs,          \* Subscriptions.subs
    last_call      \* file id -> the last call naming it: "add", "remove"
                   \* or "none"

fmt_vars == <<text, space_rules, indent_rules, anchors, pc, cst, ws, iter,
              idx, out, err, last_indent, run, first_in, first_out>>
limit_vars == <<upperbound, other, result>>
diag_vars == <<parse_errors, res, diag_done>>
subs_vars == <<subs, last_call>>
vars == <<fmt_vars, limit_vars, diag_vars, subs_vars>>

----------------------------------------------------------------------------
(* Bounds of the model *)

\* longest input text, in characters
MaxLen == 4
\* largest unsigned integer given to Limit
MaxN == 10
\* largest number of parse errors of a file
MaxErrors == 130
\* number of file ids
MaxFiles == 5

(* Program constants *)

\* whitespace.rs: pub(crate) const INDENT: u32 = 4;
INDENT == 4

----------------------------------------------------------------------------
(* Characters, lexing and parsing (the external parser behind               *)
(* SourceFile::parse, restricted to a fragment of the grammar: identifiers, *)
(* commas, brace-delimited blocks and whitespace; block comments, written  *)
(* "#" ... "#", occur in the inputs of TriviaSpec only).                    *)

SP == " "
NL == "\n"
WsChars == {SP, NL}
TokChars == {"a", ",", "{", "}"}
Chars == TokChars \cup WsChars

RECURSIVE Concat(_)
Concat(ss) == IF ss = <<>> THEN <<>> ELSE Head(ss) \o Concat(Tail(ss))

Contains(s, c) == \E i \in 1..Len(s) : s[i] = c

RECURSIVE CountChar(_, _)
CountChar(s, c) ==
    IF s = <<>> THEN 0
    ELSE (IF Head(s) = c THEN 1 ELSE 0) + CountChar(Tail(s), c)

Repeat(c, n) == [i \in 1..n |-> c]

KindOfChar(c) ==
    CASE c = "a" -> "IDENT"
      [] c = "," -> "COMMA"
      [] c = "{" -> "L_CURLY"
      [] c = "}" -> "R_CURLY"
      [] c = "#" -> "COMMENT"
      [] OTHER   -> "WHITESPACE"

\* characters that extend the token started by a character of class k
Glues(k, c) ==
    \/ k = "WHITESPACE" /\ c \in WsChars
    \/ k = "IDENT" /\ c = "a"

\* length of the longest token starting at position i of s
RECURSIVE Munch(_, _, _)
Munch(s, i, k) ==
    IF i + 1 <= Len(s) /\ Glues(k, s[i + 1]) THEN 1 + Munch(s, i + 1, k) ELSE 1

\* length of the block comment opened at position i of s: up to the closing
\* delimiter, or to the end of s when there is none
RECURSIVE CommentLen(_, _)
CommentLen(s, i) ==
    IF i + 1 > Len(s) THEN 1
    ELSE IF s[i + 1] = "#" THEN 2
    ELSE 1 + CommentLen(s, i + 1)

\* tokenize: maximal runs of whitespace and of identifier characters are one
\* token each, a block comment is one token, every other character is a token
RECURSIVE LexFrom(_, _)
LexFrom(s, i) ==
    IF i > Len(s) THEN <<>>
    ELSE LET k == KindOfChar(s[i])
             n == IF k = "COMMENT" THEN CommentLen(s, i) ELSE Munch(s, i, k)
         IN  <<[kind |-> k, text |-> SubSeq(s, i, i + n - 1)]>> \o LexFrom(s, i + n)

Lex(s) == LexFrom(s, 1)

\* The tree builder: elements in document order; parent = 0 for the root.
\* Whitespace is attached to the node that is open where it occurs; "{"
\* opens a BLOCK node, "}" closes it; a "}" with no open BLOCK is wrapped in
\* a recovered ERROR node.
Root == [kind |-> "SOURCE_FILE", tok |-> FALSE, text |-> <<>>, parent |-> 0]

RECURSIVE ParseFrom(_, _, _, _)
ParseFrom(toks, i, stack, els) ==
    IF i > Len(toks) THEN els
    ELSE
      LET t   == toks[i]
          top == stack[Len(stack)]
          n   == Len(els)
          leaf(p) == [kind |-> t.kind, tok |-> TRUE, text |-> t.text, parent |-> p]
          node(k) == [kind |-> k, tok |-> FALSE, text |-> <<>>, parent |-> top]
      IN  CASE t.kind = "L_CURLY" ->
                 ParseFrom(toks, i + 1, Append(stack, n + 1),
                           els \o <<node("BLOCK"), leaf(n + 1)>>)
            [] t.kind = "R_CURLY" /\ Len(stack) > 1 ->
                 ParseFrom(toks, i + 1, SubSeq(stack, 1, Len(stack) - 1),
                           Append(els, leaf(top)))
            [] t.kind = "R_CURLY" /\ Len(stack) = 1 ->
                 ParseFrom(toks, i + 1, stack,
                           els \o <<node("ERROR"), leaf(n + 1)>>)
            [] OTHER ->
                 ParseFrom(toks, i + 1, stack, Append(els, leaf(top)))

\* SourceFile::parse(text).syntax_node()
Parse(s) == ParseFrom(Lex(s), 1, <<1>>, <<Root>>)

----------------------------------------------------------------------------
(* Navigation in the syntax tree (rowan) *)

Max0(S) == IF S = {} THEN 0 ELSE CHOOSE x \in S : \A y \in S : y <= x
Min0(S) == IF S = {} THEN 0 ELSE CHOOSE x \in S : \A y \in S : x <= y

\* siblings_with_tokens(Direction::Prev / Next), after skipping the element
\* itself: the adjacent sibling, whitespace tokens included (0: none)
PrevSibling(c, i) == Max0({j \in 1..(i - 1) : c[j].parent = c[i].parent})
NextSibling(c, i) == Min0({j \in (i + 1)..Len(c) : c[j].parent = c[i].parent})

\* SyntaxToken::prev_token / next_token: the adjacent token in document
\* order, whitespace tokens included (0: none)
PrevToken(c, i) == Max0({j \in 1..(i - 1) : c[j].tok})
NextToken(c, i) == Min0({j \in (i + 1)..Len(c) : c[j].tok})

\* node.parent() and up to the root
RECURSIVE AncestorsFrom(_, _)
AncestorsFrom(c, p) == IF p = 0 THEN <<>> ELSE <<p>> \o AncestorsFrom(c, c[p].parent)

\* the tokens below node n, in document order (whitespace included)
IsBelow(c, j, n) == \E k \in 1..Len(AncestorsFrom(c, c[j].parent)) :
                        AncestorsFrom(c, c[j].parent)[k] = n
DescendantTokens(c, n) ==
    SelectSeq([j \in 1..Len(c) |-> j], LAMBDA j : c[j].tok /\ IsBelow(c, j, n))

\* offset of the first character of element i (TextRange::start)
RECURSIVE TextBefore(_, _)
TextBefore(c, i) ==
    IF i <= 1 THEN 0
    ELSE Len(c[i - 1].text) + TextBefore(c, i - 1)

RangeStart(c, i) == TextBefore(c, i)

----------------------------------------------------------------------------
(* whitespace.rs: the Whitespace record of an element of the original tree *)

\* what Whitespace::new yields when it reaches unreachable!("Whitespace::new")
Unreachable == [panic |-> "unreachable"]

calc_num_space_tkn(t) ==
    IF Contains(t, NL) THEN Len(t) - CountChar(t, NL) ELSE Len(t)

StartsWithNl(t) == Len(t) > 0 /\ t[1] = NL

Whitespace(nl0, nl1, len0, len1, lf) ==
    [new_line |-> <<nl0, nl1>>, text_len |-> <<len0, len1>>, starts_with_lf |-> lf]

\* Whitespace::from_node (the version that handles the root)
from_node(c, i) ==
    LET p == PrevSibling(c, i)
        n == NextSibling(c, i)
        starts_with_lf == IF c[p].kind = "WHITESPACE" THEN StartsWithNl(c[p].text) ELSE FALSE
        prev_space == IF c[p].kind = "WHITESPACE" THEN calc_num_space_tkn(c[p].text) ELSE 0
        next_space == IF c[n].kind = "WHITESPACE" THEN calc_num_space_tkn(c[n].text) ELSE 0
        prev_line == IF c[p].tok THEN Contains(c[p].text, NL) ELSE FALSE
        next_line == IF c[n].tok THEN Contains(c[n].text, NL) ELSE FALSE
    IN  CASE p # 0 /\ n # 0 ->
               Whitespace(prev_line, next_line, prev_space, next_space, starts_with_lf)
          [] p # 0 /\ n = 0 ->
               Whitespace(prev_line, FALSE, prev_space, 0, starts_with_lf)
          [] p = 0 /\ n # 0 ->
               Whitespace(FALSE, next_line, 0, next_space, FALSE)
          [] OTHER ->
               Whitespace(FALSE, FALSE, 0, 0, FALSE)

\* Whitespace::from_token
from_token(c, i) ==
    LET p == PrevToken(c, i)
        n == NextToken(c, i)
        starts_with_lf == IF c[p].kind = "WHITESPACE" THEN StartsWithNl(c[p].text) ELSE FALSE
        prev_space == IF c[p].kind = "WHITESPACE" THEN calc_num_space_tkn(c[p].text) ELSE 0
        next_space == IF c[n].kind = "WHITESPACE" THEN calc_num_space_tkn(c[n].text) ELSE 0
    IN  CASE p # 0 /\ n # 0 ->
               Whitespace(Contains(c[p].text, NL), Contains(c[n].text, NL),
                          prev_space, next_space, starts_with_lf)
          [] p # 0 /\ n = 0 ->
               Whitespace(Contains(c[p].text, NL), FALSE, prev_space, 0, starts_with_lf)
          [] p = 0 /\ n # 0 ->
               Whitespace(FALSE, Contains(c[n].text, NL), 0, next_space, FALSE)
          [] OTHER -> Unreachable

\* Whitespace::new
WhitespaceNew(c, i) == IF c[i].tok THEN from_token(c, i) ELSE from_node(c, i)

----------------------------------------------------------------------------
(* edit_tree.rs: the Block tree.  A Block is an element of the tree that   *)
(* is not a whitespace token; it is named by the element's index.          *)

\* build_block keeping the whitespace tokens as children
IsBlockAll(c, i) == TRUE

IsBlock(c, i) == ~(c[i].tok /\ c[i].kind = "WHITESPACE")
BlockIds(c) == {i \in 1..Len(c) : IsBlock(c, i)}

\* Block::build_block: the children kept
Children(c, b) ==
    SelectSeq([j \in 1..Len(c) |-> j], LAMBDA j : c[j].parent = b /\ IsBlock(c, j))

\* Block::order_flatten_blocks_inc
RECURSIVE order_flatten_blocks_inc(_, _)
order_flatten_blocks_inc(c, b) ==
    LET kids == Children(c, b)
    IN  <<b>> \o Concat([k \in 1..Len(kids) |->
                <<kids[k]>> \o (IF Children(c, kids[k]) # <<>>
                                THEN order_flatten_blocks_inc(c, kids[k])
                                ELSE <<>>)])

\* Block::order_flatten_blocks_exc_curr
order_flatten_blocks_exc_curr(c, b) ==
    LET kids == Children(c, b)
    IN  Concat([k \in 1..Len(kids) |->
                <<kids[k]>> \o (IF Children(c, kids[k]) # <<>>
                                THEN order_flatten_blocks_inc(c, kids[k])
                                ELSE <<>>)])

\* Block::order_flatten_blocks_tokens
RECURSIVE order_flatten_blocks_tokens(_, _)
order_flatten_blocks_tokens(c, b) ==
    LET kids == Children(c, b)
    IN  Concat([k \in 1..Len(kids) |->
                (IF c[kids[k]].tok THEN <<kids[k]>> ELSE <<>>)
                \o (IF Children(c, kids[k]) # <<>>
                    THEN order_flatten_blocks_tokens(c, kids[k])
                    ELSE <<>>)])

\* Block::order_flatten_blocks_nodes
RECURSIVE order_flatten_blocks_nodes(_, _)
order_flatten_blocks_nodes(c, b) ==
    LET kids == Children(c, b)
    IN  <<b>> \o Concat([k \in 1..Len(kids) |->
                (IF ~c[kids[k]].tok THEN <<kids[k]>> ELSE <<>>)
                \o (IF Children(c, kids[k]) # <<>>
                    THEN order_flatten_blocks_nodes(c, kids[k])
                    ELSE <<>>)])

\* EditTree::walk_tokens, EditTree::walk_exc_root
walk_tokens(c) == order_flatten_blocks_tokens(c, 1)
walk_exc_root(c) == order_flatten_blocks_exc_curr(c, 1)

\* EditTree::walk, EditTree::walk_nodes
walk(c) == order_flatten_blocks_inc(c, 1)
walk_nodes(c) == order_flatten_blocks_nodes(c, 1)

\* Block::ancestors_nodes: the parent nodes up to the root
ancestors_nodes(c, b) == AncestorsFrom(c, c[b].parent)

\* Block::get_indent, on a Whitespace record
get_indent(w) == IF w.starts_with_lf THEN w.text_len[1] ELSE 0

\* set_indent adding the width to the current one
set_indent_add(w, indent) == [w EXCEPT !.text_len[1] = @ + indent]

\* Block::set_indent
set_indent(w, indent) == [w EXCEPT !.text_len[1] = indent]

----------------------------------------------------------------------------
(* Rule tables: dsl.rs and pattern.rs.  A Pattern is a set of element      *)
(* kinds; a SpacingRule is [pattern, loc, value]; an IndentRule is         *)
(* [pattern]; IndentDsl.anchors is a set of patterns.                      *)

SpaceLocs == {"Before", "After", "Around"}
SpaceValues == {"Single", "SingleOrNewline", "SingleOptionalNewline", "Newline",
                "NoneOrNewline", "NoneOptionalNewline", "None"}

\* Pattern::matches
PatternMatches(pattern, c, i) == c[i].kind \in pattern

\* PatternSet::matching: the matching rules, in declaration order
matching(rules, c, i) ==
    SelectSeq(rules, LAMBDA r : PatternMatches(r.pattern, c, i))

----------------------------------------------------------------------------
(* whitespace.rs: comparing and fixing a Whitespace record *)

match_space_after(w, value) ==
    CASE value = "Single" -> w.text_len[2] = 1
      [] value = "SingleOrNewline" -> w.text_len[2] = 1 \/ w.new_line[2]
      [] value = "SingleOptionalNewline" -> w.text_len[2] = 1 \/ w.new_line[2]
      [] value = "Newline" -> w.new_line[2]
      [] value = "NoneOrNewline" -> w.text_len[2] = 0 \/ w.new_line[2]
      [] value = "NoneOptionalNewline" -> w.text_len[2] = 0 /\ w.new_line[2]
      [] value = "None" -> w.text_len[2] = 0 \/ ~w.new_line[2]

match_space_before(w, value) ==
    CASE value = "Single" -> w.text_len[1] = 1
      [] value = "SingleOrNewline" -> w.text_len[1] = 1 \/ w.new_line[1]
      [] value = "SingleOptionalNewline" -> w.text_len[1] = 1 \/ w.new_line[1]
      [] value = "Newline" -> w.new_line[1]
      [] value = "NoneOrNewline" -> w.text_len[1] = 0 \/ w.new_line[1]
      [] value = "NoneOptionalNewline" -> w.text_len[1] = 0 /\ w.new_line[1]
      [] value = "None" -> w.text_len[1] = 0 \/ ~w.new_line[1]

\* trav_util::walk_tokens(&tkn.parent()): every token below the parent
trav_walk_tokens(c, n) == DescendantTokens(c, n)

\* Whitespace::siblings_contain, for the record of element b
siblings_contain(c, b, pat) ==
    IF c[b].tok
    THEN \E k \in 1..Len(trav_walk_tokens(c, c[b].parent)) :
            c[trav_walk_tokens(c, c[b].parent)[k]].text = pat
    ELSE FALSE

\* Whitespace::fix_spacing_after, on the record w of element b
fix_spacing_after(w, value, c, b) ==
    CASE value = "Single" ->
           [w EXCEPT !.text_len[2] = 1, !.new_line[2] = FALSE]
      [] value = "Newline" ->
           [w EXCEPT !.new_line[2] = TRUE, !.text_len[2] = 0]
      [] value = "SingleOptionalNewline" ->
           IF siblings_contain(c, b, <<NL>>)
           THEN [w EXCEPT !.new_line[2] = TRUE, !.text_len[2] = 0]
           ELSE [w EXCEPT !.text_len[2] = 1, !.new_line[2] = FALSE]
      [] OTHER -> w

\* Whitespace::fix_spacing_before, on the record w of element b
fix_spacing_before(w, value, c, b) ==
    CASE value = "Single" ->
           [w EXCEPT !.text_len[1] = 1, !.new_line[1] = FALSE]
      [] value = "Newline" ->
           [w EXCEPT !.new_line[1] = TRUE, !.text_len[1] = 0]
      [] value = "SingleOptionalNewline" ->
           IF siblings_contain(c, b, <<NL>>)
           THEN [w EXCEPT !.new_line[1] = TRUE, !.text_len[1] = 0]
           ELSE [w EXCEPT !.text_len[1] = 1, !.new_line[1] = FALSE]
      [] OTHER -> w

\* Whitespace::fix_spacing_around
fix_spacing_around(w, value) ==
    CASE value = "Single" ->
           [w EXCEPT !.text_len = <<1, 1>>, !.new_line = <<FALSE, FALSE>>]
      [] value = "Newline" ->
           [w EXCEPT !.new_line = <<TRUE, TRUE>>, !.text_len = <<0, 0>>]
      [] OTHER -> w

\* Whitespace::apply_space_fix
apply_space_fix(w, rule, c, b) ==
    CASE rule.loc = "After" -> fix_spacing_after(w, rule.value, c, b)
      [] rule.loc = "Before" -> fix_spacing_before(w, rule.value, c, b)
      [] OTHER -> fix_spacing_around(w, rule.value)

\* Block::set_spacing_before: the rule's value written to the leading side
set_spacing_before(w, rule, c, b) == fix_spacing_before(w, rule.value, c, b)

\* to_space_text writing as many spaces as the record counts
to_space_text_count(w) ==
    LET before ==
          IF w.new_line[1]
          THEN (IF w.starts_with_lf /\ w.text_len[1] > 0
                THEN <<NL>> \o Repeat(SP, w.text_len[1])
                ELSE <<NL>>)
          ELSE Repeat(SP, w.text_len[1])
        after ==
          IF w.new_line[2] THEN <<NL>> ELSE Repeat(SP, w.text_len[2])
    IN  <<before, after>>

\* to_space_text with the single-space tests written "> 1"
to_space_text_gt1(w) ==
    LET before ==
          IF w.new_line[1]
          THEN (IF w.starts_with_lf /\ w.text_len[1] > 0
                THEN <<NL>> \o Repeat(SP, w.text_len[1])
                ELSE <<NL>>)
          ELSE IF w.text_len[1] > 1 THEN <<SP>> ELSE <<>>
        after ==
          IF w.new_line[2] THEN <<NL>>
          ELSE IF w.text_len[2] > 1 THEN <<SP>> ELSE <<>>
    IN  <<before, after>>

\* Whitespace::to_space_text: <<before, after>>
to_space_text(w) ==
    LET before ==
          IF w.new_line[1]
          THEN (IF w.starts_with_lf /\ w.text_len[1] > 0
                THEN <<NL>> \o Repeat(SP, w.text_len[1])
                ELSE <<NL>>)
          ELSE IF w.text_len[1] >= 1 THEN <<SP>> ELSE <<>>
        after ==
          IF w.new_line[2] THEN <<NL>>
          ELSE IF w.text_len[2] >= 1 THEN <<SP>> ELSE <<>>
    IN  <<before, after>>

----------------------------------------------------------------------------
(* engine.rs: the spacing pass *)

\* compute_spacing applying the rule to the record of every Block
compute_spacing_all(W, rule, c, left_blk, right_blk) ==
    IF \/ ~match_space_before(W[right_blk], rule.value) /\ rule.loc = "Before"
       \/ ~match_space_after(W[left_blk], rule.value) /\ PatternMatches(rule.pattern, c, left_blk)
    THEN [b \in DOMAIN W |-> set_spacing_before(W[b], rule, c, b)]
    ELSE W

\* FmtDiff::compute_spacing: the Whitespace records after the call
compute_spacing(W, rule, c, left_blk, right_blk) ==
    LET left_ws  == W[left_blk]
        right_ws == W[right_blk]
        W1 == IF ~match_space_before(right_ws, rule.value) /\ rule.loc = "Before"
              THEN [W EXCEPT ![right_blk] = set_spacing_before(@, rule, c, right_blk)]
              ELSE W
    IN  IF ~match_space_after(left_ws, rule.value) /\ PatternMatches(rule.pattern, c, left_blk)
        THEN [W1 EXCEPT ![right_blk] = set_spacing_before(@, rule, c, right_blk)]
        ELSE W1

\* FmtDiff::spacing_diff: the calls of compute_spacing it makes, in order:
\* for every pair of adjacent tokens, the rules matching left chained with
\* the rules matching right
spacing_jobs(rules, c) ==
    LET toks == walk_tokens(c)
    IN  Concat([k \in 1..(Len(toks) - 1) |->
            LET chain == matching(rules, c, toks[k]) \o matching(rules, c, toks[k + 1])
            IN  [r \in 1..Len(chain) |->
                    [left |-> toks[k], right |-> toks[k + 1], rule |-> chain[r]]]])

----------------------------------------------------------------------------
(* engine.rs: the indent pass *)

\* anchor_set.matching(node).next().is_some()
IsAnchor(anchor_set, c, n) == \E p \in anchor_set : PatternMatches(p, c, n)

\* Block::build_single(node).get_indent(): the indent of a Block built on
\* demand from the element of the original tree
built_indent(c, n) == get_indent(WhitespaceNew(c, n))

RECURSIVE SumIndent(_, _, _)
SumIndent(anchor_set, c, nodes) ==
    IF nodes = <<>> THEN 0
    ELSE (IF IsAnchor(anchor_set, c, Head(nodes)) THEN built_indent(c, Head(nodes)) ELSE 0)
         + SumIndent(anchor_set, c, Tail(nodes))

\* the width check_indent computes for block
indent_width(anchor_set, c, block) ==
    INDENT + SumIndent(anchor_set, c, ancestors_nodes(c, block))

\* std::iter::successors(block.children().next(), ..).find(is token): the
\* first token reached by descending into first children (0: none)
RECURSIVE Descend(_, _)
Descend(c, kid) ==
    IF kid = 0 THEN 0
    ELSE IF c[kid].tok THEN kid
    ELSE Descend(c, IF Children(c, kid) = <<>> THEN 0 ELSE Children(c, kid)[1])

next_closest_tkn(c, block) ==
    Descend(c, IF Children(c, block) = <<>> THEN 0 ELSE Children(c, block)[1])

\* the width always written to the Block itself
indent_target_self(c, block) == block

\* the Block check_indent writes to
indent_target(c, block) ==
    IF next_closest_tkn(c, block) # 0 THEN next_closest_tkn(c, block) ELSE block

\* FmtDiff::check_indent: the Whitespace records after the call
check_indent(W, anchor_set, c, block) ==
    IF get_indent(W[block]) # indent_width(anchor_set, c, block)
    THEN [W EXCEPT ![indent_target(c, block)] =
              set_indent(@, indent_width(anchor_set, c, block))]
    ELSE W

----------------------------------------------------------------------------
(* edit_tree.rs: the renderer *)

\* the BTreeSet of the token Blocks: one Block per start offset, in the
\* order of the offsets (impl Ord for Block)
de_dup(c) ==
    LET toks == walk_tokens(c)
        firsts == {k \in 1..Len(toks) :
                     \A j \in 1..(k - 1) : RangeStart(c, toks[j]) # RangeStart(c, toks[k])}
        rank(k) == Cardinality({j \in firsts : RangeStart(c, toks[j]) < RangeStart(c, toks[k])})
    IN  [r \in 1..Cardinality(firsts) |-> toks[CHOOSE k \in firsts : rank(k) = r - 1]]

\* the lookahead taken from the set without skipping its first Block
lookahead_noskip(c, i) == IF i <= Len(de_dup(c)) THEN de_dup(c)[i] ELSE 0

\* the lookahead Block of the i-th token rendered (0: None): the iterator
\* over de_dup skips one Block, then yields one per token rendered
lookahead(c, i) == IF i + 1 <= Len(de_dup(c)) THEN de_dup(c)[i + 1] ELSE 0

\* str_from_blk
str_from_blk(W, c, block, next) ==
    LET spaces == to_space_text(W[block])
        after ==
          IF next # 0
          THEN (IF spaces[2] = to_space_text(W[next])[1]
                   \/ Contains(to_space_text(W[next])[1], NL)
                THEN <<>> ELSE spaces[2])
          ELSE spaces[2]
    IN  spaces[1] \o c[block].text \o after

----------------------------------------------------------------------------
(* The inputs of a run *)

RECURSIVE SeqsUpTo(_, _)
SeqsUpTo(S, n) ==
    IF n = 0 THEN {<<>>}
    ELSE SeqsUpTo(S, n - 1)
         \cup {Append(s, x) : s \in {t \in SeqsUpTo(S, n - 1) : Len(t) = n - 1}, x \in S}

Texts == SeqsUpTo(Chars, MaxLen)

SpacingRule(p, l, v) == [pattern |-> p, loc |-> l, value |-> v]
IndentRule(p) == [pattern |-> p]

\* spacing tables: no rule, or one rule on commas
SpacingTables ==
    {<<>>,
     <<SpacingRule({"COMMA"}, "After", "Single")>>,
     <<SpacingRule({"COMMA"}, "After", "Newline")>>,
     <<SpacingRule({"COMMA"}, "Before", "Single")>>}

\* spacing tables combined with indent rules
LineBreakTables == {<<>>, <<SpacingRule({"COMMA"}, "After", "Newline")>>}

\* indent tables: one rule, or two rules that both match identifiers;
\* blocks are the anchors
IndentTables ==
    {<<IndentRule({"BLOCK", "IDENT"})>>,
     <<IndentRule({"BLOCK", "IDENT"}), IndentRule({"IDENT"})>>}

RuleTables ==
    {[space |-> s, indent |-> <<>>, anchors |-> {}] : s \in SpacingTables}
    \cup {[space |-> s, indent |-> i, anchors |-> {{"BLOCK"}}] :
            s \in LineBreakTables, i \in IndentTables}

----------------------------------------------------------------------------
(* format_str as a state machine *)

Idle == "idle"

LimitIdle == upperbound = 0 /\ other = 0 /\ result = Idle

FileIds == 1..MaxFiles

DiagIdle == parse_errors = <<>> /\ res = <<>> /\ diag_done = FALSE

SubsIdle == subs = {} /\ last_call = [f \in FileIds |-> "none"]

Init ==
    /\ text \in Texts
    /\ \E t \in RuleTables :
          /\ space_rules = t.space
          /\ indent_rules = t.indent
          /\ anchors = t.anchors
    /\ pc = "start"
    /\ cst = <<>>
    /\ ws = <<>>
    /\ iter = <<>>
    /\ idx = 0
    /\ out = <<>>
    /\ err = ""
    /\ last_indent = <<>>
    /\ run = 1
    /\ first_in = text
    /\ first_out = <<>>
    /\ LimitIdle
    /\ DiagIdle
    /\ SubsIdle

\* EditTree::new (Block::build_block on the root): every Block gets its
\* Whitespace record; Whitespace::new panics on a token without neighbours.
\* Then spacing_diff starts.
Build ==
    /\ pc = "start"
    /\ cst' = Parse(text)
    /\ IF \E b \in BlockIds(cst') : WhitespaceNew(cst', b) = Unreachable
       THEN /\ pc' = "panic"
            /\ err' = "unreachable"
            /\ ws' = <<>>
            /\ iter' = <<>>
       ELSE /\ pc' = "spacing"
            /\ err' = err
            /\ ws' = [b \in BlockIds(cst') |-> WhitespaceNew(cst', b)]
            /\ iter' = spacing_jobs(space_rules, cst')
    /\ idx' = 1
    /\ UNCHANGED <<text, space_rules, indent_rules, anchors, out,
                   last_indent, run, first_in, first_out, limit_vars, diag_vars, subs_vars>>

\* one iteration of the inner loop of spacing_diff
SpacingStep ==
    /\ pc = "spacing"
    /\ idx <= Len(iter)
    /\ ws' = compute_spacing(ws, iter[idx].rule, cst, iter[idx].left, iter[idx].right)
    /\ idx' = idx + 1
    /\ UNCHANGED <<text, space_rules, indent_rules, anchors, pc, cst, iter, out,
                   err, last_indent, run, first_in, first_out, limit_vars, diag_vars, subs_vars>>

\* spacing_diff returns, indent_diff collects walk_exc_root
SpacingDone ==
    /\ pc = "spacing"
    /\ idx > Len(iter)
    /\ pc' = "indent"
    /\ iter' = walk_exc_root(cst)
    /\ idx' = 1
    /\ UNCHANGED <<text, space_rules, indent_rules, anchors, cst, ws, out,
                   err, last_indent, run, first_in, first_out, limit_vars, diag_vars, subs_vars>>

\* one iteration of the loop of indent_diff
IndentStep ==
    /\ pc = "indent"
    /\ idx <= Len(iter)
    /\ LET block == iter[idx]
           n == Len(matching(indent_rules, cst, block))
       IN  IF n >= 1 /\ ws[block].starts_with_lf
           THEN /\ ws' = check_indent(ws, anchors, cst, block)
                /\ last_indent' =
                     IF ws' # ws
                     THEN [at |-> idx, block |-> block,
                           target |-> indent_target(cst, block),
                           width |-> ws'[indent_target(cst, block)].text_len[1]]
                     ELSE last_indent
                /\ IF n >= 2
                   THEN pc' = "panic" /\ err' = "more than one indent rule matched"
                   ELSE pc' = pc /\ err' = err
           ELSE UNCHANGED <<ws, last_indent, pc, err>>
    /\ idx' = idx + 1
    /\ UNCHANGED <<text, space_rules, indent_rules, anchors, cst, iter, out,
                   run, first_in, first_out, limit_vars, diag_vars, subs_vars>>

\* the renderer started while the indent pass still has Blocks to visit
IndentDoneEarly ==
    /\ pc = "indent"
    /\ pc' = "render"
    /\ iter' = walk_tokens(cst)
    /\ idx' = 1
    /\ out' = <<>>
    /\ UNCHANGED <<text, space_rules, indent_rules, anchors, cst, ws,
                   err, last_indent, run, first_in, first_out, limit_vars, diag_vars, subs_vars>>

\* indent_diff returns, apply_edits starts
IndentDone ==
    /\ pc = "indent"
    /\ idx > Len(iter)
    /\ pc' = "render"
    /\ iter' = walk_tokens(cst)
    /\ idx' = 1
    /\ out' = <<>>
    /\ UNCHANGED <<text, space_rules, indent_rules, anchors, cst, ws,
                   err, last_indent, run, first_in, first_out, limit_vars, diag_vars, subs_vars>>

\* one step of the scan of apply_edits
RenderStep ==
    /\ pc = "render"
    /\ idx <= Len(iter)
    /\ out' = out \o str_from_blk(ws, cst, iter[idx], lookahead(cst, idx))
    /\ idx' = idx + 1
    /\ UNCHANGED <<text, space_rules, indent_rules, anchors, pc, cst, ws, iter,
                   err, last_indent, run, first_in, first_out, limit_vars, diag_vars, subs_vars>>

\* apply_edits returns Ok(string)
RenderDone ==
    /\ pc = "render"
    /\ idx > Len(iter)
    /\ pc' = "done"
    /\ UNCHANGED <<text, space_rules, indent_rules, anchors, cst, ws, iter, idx,
                   out, err, last_indent, run, first_in, first_out, limit_vars, diag_vars, subs_vars>>

Next ==
    \/ Build
    \/ SpacingStep
    \/ SpacingDone
    \/ IndentStep
    \/ IndentDone
    \/ RenderStep
    \/ RenderDone

Spec == Init /\ [][Next]_vars

\* the caller formats the output of the first run again, with the same tables
Reformat ==
    /\ pc = "done"
    /\ run = 1
    /\ run' = 2
    /\ first_out' = out
    /\ text' = out
    /\ pc' = "start"
    /\ cst' = <<>>
    /\ ws' = <<>>
    /\ iter' = <<>>
    /\ idx' = 0
    /\ out' = <<>>
    /\ last_indent' = <<>>
    /\ UNCHANGED <<space_rules, indent_rules, anchors, err, first_in, limit_vars, diag_vars, subs_vars>>

NextTwice == Next \/ Reformat

\* format_str run on an input and then on its own output
TwiceSpec == Init /\ [][NextTwice]_vars

----------------------------------------------------------------------------
(* Runs of the spacing pass under tables in which several rules, and the   *)
(* other values of SpaceValue, meet on the edge between a comma and an     *)
(* identifier                                                              *)

\* an After rule on commas with a Before rule on identifiers (in both
\* declaration orders), two Before rules on identifiers, and one rule on
\* commas for each of None, SingleOrNewline and SingleOptionalNewline
EdgeTables ==
    {<<SpacingRule({"COMMA"}, "After", "Newline"), SpacingRule({"IDENT"}, "Before", "Single")>>,
     <<SpacingRule({"IDENT"}, "Before", "Single"), SpacingRule({"COMMA"}, "After", "Newline")>>,
     <<SpacingRule({"COMMA"}, "After", "Single"), SpacingRule({"IDENT"}, "Before", "Newline")>>,
     <<SpacingRule({"IDENT"}, "Before", "Single"), SpacingRule({"IDENT"}, "Before", "Newline")>>,
     <<SpacingRule({"COMMA"}, "After", "None")>>,
     <<SpacingRule({"COMMA"}, "Before", "None")>>,
     <<SpacingRule({"COMMA"}, "Around", "None")>>,
     <<SpacingRule({"COMMA"}, "After", "SingleOrNewline")>>,
     <<SpacingRule({"COMMA"}, "After", "SingleOptionalNewline")>>,
     <<SpacingRule({"COMMA"}, "Before", "SingleOrNewline")>>,
     <<SpacingRule({"COMMA"}, "Before", "SingleOptionalNewline")>>}

EdgeInit ==
    /\ text \in Texts
    /\ space_rules \in EdgeTables
    /\ indent_rules = <<>>
    /\ anchors = {}
    /\ pc = "start"
    /\ cst = <<>>
    /\ ws = <<>>
    /\ iter = <<>>
    /\ idx = 0
    /\ out = <<>>
    /\ err = ""
    /\ last_indent = <<>>
    /\ run = 1
    /\ first_in = text
    /\ first_out = <<>>
    /\ LimitIdle
    /\ DiagIdle
    /\ SubsIdle

EdgeSpec == EdgeInit /\ [][Next]_vars

----------------------------------------------------------------------------
(* Runs without any rule, and runs under one table in which both passes    *)
(* have a rule: a space after commas, identifiers and blocks indented      *)

PassesTables ==
    {[space |-> <<>>, indent |-> <<>>, anchors |-> {}],
     [space |-> <<SpacingRule({"COMMA"}, "After", "Single")>>,
      indent |-> <<IndentRule({"BLOCK", "IDENT"})>>,
      anchors |-> {{"BLOCK"}}]}

PassesInit ==
    /\ text \in Texts
    /\ \E t \in PassesTables :
          /\ space_rules = t.space
          /\ indent_rules = t.indent
          /\ anchors = t.anchors
    /\ pc = "start"
    /\ cst = <<>>
    /\ ws = <<>>
    /\ iter = <<>>
    /\ idx = 0
    /\ out = <<>>
    /\ err = ""
    /\ last_indent = <<>>
    /\ run = 1
    /\ first_in = text
    /\ first_out = <<>>
    /\ LimitIdle
    /\ DiagIdle
    /\ SubsIdle

PassesSpec == PassesInit /\ [][Next]_vars

----------------------------------------------------------------------------
(* Runs on inputs that hold a block comment: a token that is trivia but    *)
(* not whitespace, and whose text may hold a line break                    *)

TriviaTexts == {t \in SeqsUpTo(Chars \cup {"#"}, MaxLen) : Contains(t, "#")}

TriviaInit ==
    /\ text \in TriviaTexts
    /\ space_rules \in {<<>>, <<SpacingRule({"COMMA"}, "After", "Single")>>}
    /\ indent_rules = <<>>
    /\ anchors = {}
    /\ pc = "start"
    /\ cst = <<>>
    /\ ws = <<>>
    /\ iter = <<>>
    /\ idx = 0
    /\ out = <<>>
    /\ err = ""
    /\ last_indent = <<>>
    /\ run = 1
    /\ first_in = text
    /\ first_out = <<>>
    /\ LimitIdle
    /\ DiagIdle
    /\ SubsIdle

TriviaSpec == TriviaInit /\ [][Next]_vars

----------------------------------------------------------------------------
(* limit/src/lib.rs *)

\* Limit::check
check(limit, value) == IF value > limit THEN "Err" ELSE "Ok"

FmtIdle ==
    /\ text = <<>> /\ space_rules = <<>> /\ indent_rules = <<>> /\ anchors = {}
    /\ pc = "idle" /\ cst = <<>> /\ ws = <<>> /\ iter = <<>> /\ idx = 0
    /\ out = <<>> /\ err = "" /\ last_indent = <<>> /\ run = 1
    /\ first_in = <<>> /\ first_out = <<>>

\* Limit::new(upperbound), and the value later given to check
LimitInit ==
    /\ upperbound \in 0..MaxN
    /\ other \in 0..MaxN
    /\ result = Idle
    /\ FmtIdle
    /\ DiagIdle
    /\ SubsIdle

LimitCheck ==
    /\ result = Idle
    /\ result' = check(upperbound, other)
    /\ UNCHANGED <<upperbound, other, fmt_vars, diag_vars, subs_vars>>

LimitNext == LimitCheck

LimitSpec == LimitInit /\ [][LimitNext]_vars

----------------------------------------------------------------------------
(* ide/src/diagnostics.rs: the syntax errors of diagnostics() *)

\* Iterator::take keeping every element
take_all(s, n) == s

\* Iterator::take
take(s, n) == SubSeq(s, 1, IF Len(s) < n THEN Len(s) ELSE n)

\* Diagnostic::error(err.range(), format!("Syntax Error: {}", err))
Diagnostic_error(e) == [message |-> e, severity |-> "Error"]

\* res.extend(parse.errors().iter().take(128).map(Diagnostic::error))
diagnostics(errors) ==
    [i \in 1..Len(take(errors, 128)) |-> Diagnostic_error(take(errors, 128)[i])]

\* the parse errors of a file: error i is named i
DiagInit ==
    /\ parse_errors \in {[i \in 1..n |-> i] : n \in 0..MaxErrors}
    /\ res = <<>>
    /\ diag_done = FALSE
    /\ FmtIdle
    /\ LimitIdle
    /\ SubsIdle

DiagStep ==
    /\ ~diag_done
    /\ res' = res \o diagnostics(parse_errors)
    /\ diag_done' = TRUE
    /\ UNCHANGED <<parse_errors, fmt_vars, limit_vars, subs_vars>>

DiagNext == DiagStep

DiagSpec == DiagInit /\ [][DiagNext]_vars

----------------------------------------------------------------------------
(* ra_lsp_server/src/main_loop/subscriptions.rs *)

\* remove_sub leaving the set as it is
remove_sub_kept(s, file_id) == s

\* Subscriptions::add_sub, Subscriptions::remove_sub (HashSet insert/remove)
add_sub(s, file_id) == s \cup {file_id}
remove_sub(s, file_id) == s \ {file_id}

\* Subscriptions::subscriptions: the elements of the set collected in the
\* order the HashSet iterates, which is any order: the set of the vectors
\* it may return
subscriptions(s) ==
    {v \in [1..Cardinality(s) -> s] : \A x \in s : \E i \in 1..Cardinality(s) : v[i] = x}

\* Subscriptions::default()
SubsInit ==
    /\ SubsIdle
    /\ FmtIdle
    /\ LimitIdle
    /\ DiagIdle

AddSub ==
    \E f \in FileIds :
        /\ subs' = add_sub(subs, f)
        /\ last_call' = [last_call EXCEPT ![f] = "add"]
        /\ UNCHANGED <<fmt_vars, limit_vars, diag_vars>>

RemoveSub ==
    \E f \in FileIds :
        /\ subs' = remove_sub(subs, f)
        /\ last_call' = [last_call EXCEPT ![f] = "remove"]
        /\ UNCHANGED <<fmt_vars, limit_vars, diag_vars>>

SubsNext == AddSub \/ RemoveSub

SubsSpec == SubsInit /\ [][SubsNext]_vars

----------------------------------------------------------------------------
(* Properties *)

\* the texts of the tokens of s that are not whitespace, in order
TokenTexts(s) ==
    LET nonws == SelectSeq(Lex(s), LAMBDA t : t.kind # "WHITESPACE")
    IN  [k \in 1..Len(nonws) |-> nonws[k].text]

\* the whitespace that follows the k-th non-whitespace token of s
GapAfter(s, k) ==
    LET L == Lex(s)
        pos == SelectSeq([i \in 1..Len(L) |-> i], LAMBDA i : L[i].kind # "WHITESPACE")[k]
    IN  IF pos + 1 <= Len(L) /\ L[pos + 1].kind = "WHITESPACE" THEN L[pos + 1].text ELSE <<>>

EndsWithOneNewline(s) ==
    /\ Len(s) >= 1
    /\ s[Len(s)] = NL
    /\ (Len(s) >= 2 => s[Len(s) - 1] # NL)

\* some Block of the tree is matched by two or more indent rules
AmbiguousBlock ==
    \E b \in BlockIds(cst) : Len(matching(indent_rules, cst, b)) >= 2

\* the indent a node has in the edit tree: that of the Block its indent is
\* written to
ResolvedIndent(W, c, n) == get_indent(W[indent_target(c, n)])

RECURSIVE SumResolved(_, _, _, _)
SumResolved(W, anchor_set, c, nodes) ==
    IF nodes = <<>> THEN 0
    ELSE (IF IsAnchor(anchor_set, c, Head(nodes))
          THEN ResolvedIndent(W, c, Head(nodes)) ELSE 0)
         + SumResolved(W, anchor_set, c, Tail(nodes))

\* C1: formatting the output of a run again, with the same rule tables,
\* reproduces that output: format(format(t)) = format(t).
C1_Idempotence ==
    (pc = "done" /\ run = 2) => out = first_out

\* C2: the non-whitespace tokens of the rendered output are those of the
\* input, each once and in the same order.
C2_TokenPreservation ==
    pc = "done" => TokenTexts(out) = TokenTexts(text)

\* C2 witness: a run with at least two tokens and a spacing rule finished
\* with an output that differs from its input.
C2_Witness ==
    /\ pc = "done"
    /\ Len(walk_tokens(cst)) >= 2
    /\ space_rules # <<>>
    /\ out # text

\* C3: the output of a run on an input with at least one token ends with
\* exactly one newline character.
C3_TrailingNewline ==
    (pc = "done" /\ Len(walk_tokens(cst)) >= 1) => EndsWithOneNewline(out)

\* C4: a run in which some Block is matched by two or more indent rules
\* fails: it neither reaches the renderer nor returns a string.
C4_AmbiguityFails ==
    (pc \in {"render", "done"}) => ~AmbiguousBlock

\* C5: formatting the empty string fails; it never returns successfully.
C5_EmptyInputFails ==
    text = <<>> => pc # "done"

\* C6: building the Block tree never reaches the unreachable branch of
\* Whitespace::new, whatever the parsed tree.
C6_ConstructionNeverFails ==
    err # "unreachable"

\* C7: with the single rule (P, After, Single), every pair of adjacent tokens
\* whose left token matches P is rendered with exactly one space and no
\* newline between the two, whatever the original gap was.
C7_SingleAfter ==
    (/\ pc = "done"
     /\ Len(space_rules) = 1
     /\ space_rules[1].loc = "After"
     /\ space_rules[1].value = "Single")
    => \A k \in 1..(Len(walk_tokens(cst)) - 1) :
          PatternMatches(space_rules[1].pattern, cst, walk_tokens(cst)[k])
          => GapAfter(out, k) = <<SP>>

\* C8: the width check_indent writes for a Block is INDENT plus the sum, over
\* the Block's ancestors matching an anchor pattern, of the indent the
\* ancestor has in the edit tree at that time (its resolved indent).
C8_IndentWidthResolved ==
    (pc = "indent" /\ last_indent # <<>> /\ last_indent.at = idx - 1)
    => last_indent.width =
          INDENT + SumResolved(ws, anchors, cst, ancestors_nodes(cst, last_indent.block))

\* C10: Limit::check returns Ok exactly when the value is below the upper
\* bound, and Err otherwise (also when the value equals the bound).
C10_CheckBelow ==
    result # Idle => (result = "Ok" <=> other < upperbound)

----------------------------------------------------------------------------
(* Properties of the spacing pass *)

\* the gap a SpaceValue prescribes
GapText(value) ==
    CASE value = "Single" -> <<SP>>
      [] value = "Newline" -> <<NL>>
      [] value = "None" -> <<>>

\* the k-th pair of adjacent tokens is an edge of spacing rule r: r is an
\* After rule matching the left token, a Before rule matching the right
\* token, or an Around rule matching either
IsEdgeOf(r, c, k) ==
    LET toks == walk_tokens(c)
    IN  \/ r.loc \in {"After", "Around"} /\ PatternMatches(r.pattern, c, toks[k])
        \/ r.loc \in {"Before", "Around"} /\ PatternMatches(r.pattern, c, toks[k + 1])

\* the token of the k-th pair that rule r matched
EdgeOwner(r, c, k) ==
    IF r.loc = "Before" THEN walk_tokens(c)[k + 1] ELSE walk_tokens(c)[k]

\* some whitespace token of the original tree below the parent of b holds
\* a line break
RunHasNewline(c, b) ==
    \E j \in 1..Len(c) :
        /\ c[j].tok /\ c[j].kind = "WHITESPACE"
        /\ IsBelow(c, j, c[b].parent)
        /\ Contains(c[j].text, NL)

Reverse(s) == [i \in 1..Len(s) |-> s[Len(s) + 1 - i]]

\* C11: where an After rule matches the left token of a pair and a Before
\* rule with another value matches the right token, the gap between the two
\* is the one the Before rule prescribes, whatever the declaration order of
\* the rules and the original gap.
C11_BeforeWins ==
    pc = "done" =>
      \A k \in 1..(Len(walk_tokens(cst)) - 1) :
        \A i, j \in 1..Len(space_rules) :
          (/\ space_rules[i].loc = "After"
           /\ PatternMatches(space_rules[i].pattern, cst, walk_tokens(cst)[k])
           /\ space_rules[j].loc = "Before"
           /\ PatternMatches(space_rules[j].pattern, cst, walk_tokens(cst)[k + 1])
           /\ space_rules[i].value # space_rules[j].value)
          => GapAfter(out, k) = GapText(space_rules[j].value)

\* C12: a call of compute_spacing that changes a Whitespace record finds the
\* record of the pair's right token as it was built: no earlier rule of the
\* chain has already written a decision for the same pair.
C12_OneDecisionPerEdge ==
    [][(pc = "spacing" /\ idx <= Len(iter) /\ ws' # ws)
       => ws[iter[idx].right] = WhitespaceNew(cst, iter[idx].right)]_vars

\* C13: a call of compute_spacing changes at most the leading fields of the
\* right Block (rule with location Before) or the trailing fields of the
\* left Block (rule with location After); every other field and every other
\* record is unchanged.
C13_FrameEffect ==
    [][(pc = "spacing" /\ idx <= Len(iter))
       => \A b \in BlockIds(cst) :
            ws'[b] # ws[b] =>
              \/ /\ iter[idx].rule.loc = "Before"
                 /\ b = iter[idx].right
                 /\ ws'[b].new_line[2] = ws[b].new_line[2]
                 /\ ws'[b].text_len[2] = ws[b].text_len[2]
                 /\ ws'[b].starts_with_lf = ws[b].starts_with_lf
              \/ /\ iter[idx].rule.loc = "After"
                 /\ b = iter[idx].left
                 /\ ws'[b].new_line[1] = ws[b].new_line[1]
                 /\ ws'[b].text_len[1] = ws[b].text_len[1]
                 /\ ws'[b].starts_with_lf = ws[b].starts_with_lf
              \/ iter[idx].rule.loc = "Around"]_vars

\* FmtDiff::spacing_diff: the Whitespace records after compute_spacing has
\* been called for the jobs, in the order given
RECURSIVE spacing_diff(_, _, _)
spacing_diff(W, c, jobs) ==
    IF jobs = <<>> THEN W
    ELSE spacing_diff(compute_spacing(W, Head(jobs).rule, c, Head(jobs).left, Head(jobs).right),
                      c, Tail(jobs))

\* C14: the spacing pass yields the same Whitespace records when the pairs,
\* and the rules matching each pair, are processed in the opposite order.
C14_OrderInsensitive ==
    (pc = "spacing" /\ idx = 1)
    => spacing_diff(ws, cst, iter) = spacing_diff(ws, cst, Reverse(iter))

\* C15: with a single rule of value None, every edge of the rule is rendered
\* with no space and no newline, whatever the original gap was.
C15_ValueNone ==
    (pc = "done" /\ Len(space_rules) = 1 /\ space_rules[1].value = "None")
    => \A k \in 1..(Len(walk_tokens(cst)) - 1) :
          IsEdgeOf(space_rules[1], cst, k) => GapAfter(out, k) = <<>>

\* C16: with a single rule of value SingleOrNewline or SingleOptionalNewline,
\* every edge of the rule is rendered as one space, unless a whitespace token
\* among the siblings of the matched token holds a line break: then as one
\* newline.
C16_SingleOrNewline ==
    (/\ pc = "done"
     /\ Len(space_rules) = 1
     /\ space_rules[1].value \in {"SingleOrNewline", "SingleOptionalNewline"})
    => \A k \in 1..(Len(walk_tokens(cst)) - 1) :
          IsEdgeOf(space_rules[1], cst, k)
          => GapAfter(out, k) =
               IF RunHasNewline(cst, EdgeOwner(space_rules[1], cst, k))
               THEN <<NL>> ELSE <<SP>>

----------------------------------------------------------------------------
(* Properties of the indent pass *)

\* the leading whitespace of Block b starts with a line break when the
\* indent pass runs: it did in the original text, or the spacing pass has
\* set the Block's leading newline
LeadsLine(W, c, b) ==
    \/ W[b].starts_with_lf
    \/ W[b].new_line[1] /\ ~WhitespaceNew(c, b).new_line[1]

\* token t is reached from node b through first children only
ViaFirstChildren(c, t, b) ==
    /\ c[t].tok /\ IsBlock(c, t) /\ IsBelow(c, t, b)
    /\ \A e \in {t} \cup {a \in 1..Len(c) : IsBelow(c, t, a) /\ IsBelow(c, a, b)} :
          e = Children(c, c[e].parent)[1]

\* the Block that receives the indent of b: the token reached through
\* first children, b itself when b is a token or there is none
FirstTokenOf(c, b) ==
    IF ~c[b].tok /\ \E t \in 1..Len(c) : ViaFirstChildren(c, t, b)
    THEN CHOOSE t \in 1..Len(c) : ViaFirstChildren(c, t, b)
    ELSE b

\* FmtDiff::indent_diff: the Whitespace records after the loop over blocks
RECURSIVE indent_diff(_, _, _, _, _)
indent_diff(W, rules, anchor_set, c, blocks) ==
    IF blocks = <<>> THEN W
    ELSE indent_diff(IF matching(rules, c, Head(blocks)) # <<>> /\ W[Head(blocks)].starts_with_lf
                     THEN check_indent(W, anchor_set, c, Head(blocks))
                     ELSE W,
                     rules, anchor_set, c, Tail(blocks))

\* C17: when the indent pass has run, every Block that matches an indent
\* rule and whose leading whitespace starts with a line break, be it from the
\* original text or from a Newline decision of the spacing pass, has the
\* indent width computed for it.
C17_IndentAfterNewline ==
    (pc = "render" /\ idx = 1)
    => \A b \in BlockIds(cst) \ {1} :
          (matching(indent_rules, cst, b) # <<>> /\ LeadsLine(ws, cst, b))
          => ws[indent_target(cst, b)].text_len[1] = indent_width(anchors, cst, b)

C19_IndentNoOp ==
    (pc = "render" /\ idx = 1)
    => /\ indent_diff(ws, indent_rules, anchors, cst, walk_exc_root(cst)) = ws
       /\ \A b \in BlockIds(cst) \ {1} :
             get_indent(ws[b]) = indent_width(anchors, cst, b)
             => check_indent(ws, anchors, cst, b) = ws

\* C19 witness: the indent pass has finished and has written an indent.
C19_Witness ==
    /\ pc = "render"
    /\ idx = 1
    /\ last_indent # <<>>
    /\ ws # [b \in BlockIds(cst) |-> WhitespaceNew(cst, b)]

\* C20: when the run aborts because more than one indent rule matched a
\* Block, no indent has been written for that Block.
C20_AbortBeforeWrite ==
    (pc = "panic" /\ err = "more than one indent rule matched")
    => ~(last_indent # <<>> /\ last_indent.at = idx - 1)

----------------------------------------------------------------------------
(* Properties of the renderer, of the run as a whole and of the Block tree *)

\* C21: the whitespace rendered between two consecutive tokens is the
\* trailing whitespace of the first one's record or the leading whitespace
\* of the second one's record, never the one followed by the other.
C21_GapFromOneRecord ==
    pc = "done" =>
      \A k \in 1..(Len(walk_tokens(cst)) - 1) :
        GapAfter(out, k) \in {to_space_text(ws[walk_tokens(cst)[k]])[2],
                              to_space_text(ws[walk_tokens(cst)[k + 1]])[1]}

\* the place of a program position in format_str
PhaseRank(p) ==
    CASE p = "start" -> 0
      [] p = "spacing" -> 1
      [] p = "indent" -> 2
      [] p = "render" -> 3
      [] p = "done" -> 4
      [] OTHER -> 5

\* C22: a run never goes back to an earlier pass, the indent pass starts
\* only when the spacing pass has handled all its pairs, rendering starts
\* only when the indent pass has visited all its Blocks, and the Whitespace
\* records are written before rendering only.
C22_Sequential ==
    [][/\ PhaseRank(pc') >= PhaseRank(pc)
       /\ (pc = "spacing" /\ pc' = "indent") => idx > Len(iter)
       /\ (pc = "indent" /\ pc' = "render") => idx > Len(iter)
       /\ ws' # ws => pc \in {"start", "spacing", "indent"}
       /\ out' # out => pc = "render"]_vars

\* C22 witness: rendering starts in a run in which the spacing pass has set
\* a leading newline and the indent pass has written an indent.
C22_Witness ==
    /\ pc = "render"
    /\ idx = 1
    /\ last_indent # <<>>
    /\ \E b \in BlockIds(cst) : ws[b].new_line[1] # WhitespaceNew(cst, b).new_line[1]

NoRepeats(s) == \A i, j \in 1..Len(s) : s[i] = s[j] => i = j

\* C23: walk, walk_exc_root and walk_nodes yield no Block twice.
C23_TraversalOnce ==
    pc = "indent" =>
      /\ NoRepeats(walk(cst))
      /\ NoRepeats(walk_exc_root(cst))
      /\ NoRepeats(walk_nodes(cst))

\* the tokens of the tree whose kind is not in kinds, in text order
TokensNotOf(c, kinds) ==
    SelectSeq([j \in 1..Len(c) |-> j], LAMBDA j : c[j].tok /\ c[j].kind \notin kinds)

\* C24 as stated: at every point of a run walk_tokens yields exactly the
\* tokens of the tree that are not trivia (neither whitespace nor comment),
\* each once and in text order.
C24_WalkTokensNonTrivia ==
    pc \in {"spacing", "indent", "render", "done"}
    => walk_tokens(cst) = TokensNotOf(cst, {"WHITESPACE", "COMMENT"})

\* C24 amended: at every point of a run walk_tokens yields exactly the
\* tokens of the tree that are not whitespace, comments included, each once
\* and in text order; no whitespace token is a Block.
C24_WalkTokensNonWhitespace ==
    pc \in {"spacing", "indent", "render", "done"}
    => /\ walk_tokens(cst) = TokensNotOf(cst, {"WHITESPACE"})
       /\ \A b \in BlockIds(cst) : ~(cst[b].tok /\ cst[b].kind = "WHITESPACE")

\* C24 witness: a finished run on a tree with a comment, a whitespace token
\* and a token inside a node.
C24_Witness ==
    /\ pc = "done"
    /\ \E j \in 1..Len(cst) : cst[j].kind = "COMMENT"
    /\ \E j \in 1..Len(cst) : cst[j].kind = "WHITESPACE"
    /\ \E j \in 1..Len(cst) : cst[j].tok /\ cst[j].parent # 1

\* the element next to element i on its leading / trailing side, as
\* Whitespace::new looks it up (0: none)
PrevElement(c, i) == IF c[i].tok THEN PrevToken(c, i) ELSE PrevSibling(c, i)
NextElement(c, i) == IF c[i].tok THEN NextToken(c, i) ELSE NextSibling(c, i)

IsLineBreakWhitespace(c, j) ==
    j # 0 /\ c[j].tok /\ c[j].kind = "WHITESPACE" /\ Contains(c[j].text, NL)

\* C25: in the records as constructed, a newline flag is set only where the
\* adjacent element on that side is a whitespace token holding a line
\* break.
C25_NewlineFromWhitespaceOnly ==
    (pc = "spacing" /\ idx = 1)
    => \A b \in BlockIds(cst) :
          /\ ws[b].new_line[1] => IsLineBreakWhitespace(cst, PrevElement(cst, b))
          /\ ws[b].new_line[2] => IsLineBreakWhitespace(cst, NextElement(cst, b))

\* no spacing rule matches token b or a token next to it in walk_tokens, and
\* no indent rule matches b or a node whose indent is written to b
Unmatched(b) ==
    /\ \A r \in 1..Len(space_rules) : ~PatternMatches(space_rules[r].pattern, cst, b)
    /\ \A k \in 1..Len(walk_tokens(cst)) :
          (\/ k > 1 /\ walk_tokens(cst)[k - 1] = b
           \/ k < Len(walk_tokens(cst)) /\ walk_tokens(cst)[k + 1] = b)
          => matching(space_rules, cst, walk_tokens(cst)[k]) = <<>>
    /\ \A n \in BlockIds(cst) :
          (n = b \/ FirstTokenOf(cst, n) = b) => matching(indent_rules, cst, n) = <<>>

\* C26: after both passes, a Block that no spacing rule and no indent rule
\* concerns has the Whitespace record it was constructed with.
C26_OnlyRulesOverwrite ==
    (pc = "render" /\ idx = 1)
    => \A b \in BlockIds(cst) : ws[b] # WhitespaceNew(cst, b) => ~Unmatched(b)

\* C26 witness: a finished run in which a rule has changed one record and a
\* token that no rule concerns has kept its own.
C26_Witness ==
    /\ pc = "done"
    /\ \E b \in BlockIds(cst) : ws[b] # WhitespaceNew(cst, b)
    /\ \E b \in BlockIds(cst) : cst[b].tok /\ Unmatched(b) /\ ws[b] = WhitespaceNew(cst, b)

\* C27: the syntax-error diagnostics are the first min(n, 128) of the n
\* parse errors, in their order, each with severity Error.
C27_AtMost128 ==
    diag_done =>
      /\ Len(res) <= 128
      /\ Len(res) = IF Len(parse_errors) < 128 THEN Len(parse_errors) ELSE 128
      /\ \A i \in 1..Len(res) :
            res[i].message = parse_errors[i] /\ res[i].severity = "Error"

\* C27 witness: diagnostics has run on a file with more than 128 parse
\* errors.
C27_Witness ==
    diag_done /\ Len(parse_errors) > 128 /\ Len(res) = 128

\* C28: a gap whose two records have no newline is rendered as at most one
\* space; a gap of several spaces is rendered as one space when no rule is
\* given; and a leading whitespace longer than one character is a newline
\* followed by the counted spaces, of a Block that started a line.
C28_AtMostOneSpace ==
    pc = "done" =>
      /\ \A k \in 1..(Len(walk_tokens(cst)) - 1) :
            /\ (~ws[walk_tokens(cst)[k]].new_line[2] /\ ~ws[walk_tokens(cst)[k + 1]].new_line[1])
               => GapAfter(out, k) \in {<<>>, <<SP>>}
            /\ (/\ space_rules = <<>> /\ indent_rules = <<>>
                /\ Len(GapAfter(text, k)) > 1
                /\ ~Contains(GapAfter(text, k), NL))
               => GapAfter(out, k) = <<SP>>
      /\ \A b \in BlockIds(cst) :
            Len(to_space_text(ws[b])[1]) > 1
            => /\ ws[b].starts_with_lf /\ ws[b].text_len[1] > 0
               /\ to_space_text(ws[b])[1] = <<NL>> \o Repeat(SP, ws[b].text_len[1])

\* C28 witness: a finished run without rules on a text with a gap of two
\* spaces, rendered as one space.
C28_Witness ==
    /\ pc = "done"
    /\ space_rules = <<>>
    /\ \E k \in 1..(Len(walk_tokens(cst)) - 1) :
          GapAfter(text, k) = <<SP, SP>> /\ GapAfter(out, k) = <<SP>>

\* C29: every vector subscriptions() may return holds each file id at most
\* once, and holds an id exactly when the last call naming it was add_sub;
\* add_sub of a subscribed id and remove_sub of an id that is not
\* subscribed leave the set as it is.
C29_SetSemantics ==
    /\ \A v \in subscriptions(subs) :
          /\ NoRepeats(v)
          /\ \A f \in FileIds : (\E i \in 1..Len(v) : v[i] = f) <=> last_call[f] = "add"
    /\ \A f \in FileIds :
          /\ f \in subs => add_sub(subs, f) = subs
          /\ f \notin subs => remove_sub(subs, f) = subs

\* C29 witness: two ids are subscribed and a third one has been removed
\* after having been added.
C29_Witness ==
    /\ Cardinality(subs) >= 2
    /\ \E f \in FileIds : last_call[f] = "remove"

\* C30: while the i-th token of walk_tokens is rendered, the lookahead given
\* to str_from_blk is the (i+1)-th token of walk_tokens, and none for the
\* last token; the ordered set the lookahead is taken from holds the Blocks
\* of walk_tokens, in the same order.
C30_LookaheadAligned ==
    (pc = "render" /\ idx <= Len(iter))
    => /\ de_dup(cst) = walk_tokens(cst)
       /\ lookahead(cst, idx) =
             IF idx < Len(walk_tokens(cst)) THEN walk_tokens(cst)[idx + 1] ELSE 0

\* C30 witness: the last of at least three tokens, one of them inside a
\* node, is about to be rendered.
C30_Witness ==
    /\ pc = "render"
    /\ Len(iter) >= 3
    /\ idx = Len(iter)
    /\ \E k \in 1..Len(iter) : cst[iter[k]].parent # 1

====
